---------------------------- MODULE Spec2Model ----------------------------
(***************************************************************************)
(* State-machine model of the Consul service resolver of faas-nomad        *)
(* (src/main.go, package resolver): ConsulServiceResolver with its         *)
(* sync.Map cache, the consul-template watcher it subscribes queries to,   *)
(* the watch() goroutine draining the watcher's data channel, the reset()  *)
(* goroutine and the callers of Resolve / ResolveAll.                      *)
(*                                                                         *)
(* Strings are sequences of tokens ("echo.openfaas-fn" is                  *)
(* <<"echo", ".", "openfaas-fn">>), so that prefixing, suffix trimming and *)
(* "%v:%v" formatting are computed and not assumed.                        *)
(*                                                                         *)
(* Fields named in the comments as "ghost" do not exist in the program:    *)
(* they record where a value came from and are never read by an action's   *)
(* guard or by the values the program computes.                            *)
(***************************************************************************)
EXTENDS Integers, Sequences, FiniteSets, TLC

(* ------------------------------ bounds --------------------------------- *)

\* number of catalog changes the environment makes in a behaviour
MaxChanges == 1
\* number of ticks of the reset ticker in a behaviour
MaxResets == 1
\* capacity of a watcher's data channel (buffered in the library)
MaxChan == 1

(* --------------------------- configuration ----------------------------- *)

\* config.Scheduling.JobPrefix
prefix == <<"svc-">>
\* config.Scheduling.Namespace
namespace == <<"openfaas-fn">>
\* config.Consul.ConnectAware
connect == FALSE

Callers == {"c1", "c2"}

\* the function names callers pass in
FnNames ==
    { <<"echo">>,
      <<"echo", ".", "openfaas-fn">>,
      <<"echo", ".", "openfaas-fn", ".", "openfaas-fn">>,
      <<"e/cho">> }

(* ------------------------------ strings -------------------------------- *)

\* strings.HasSuffix
HasSuffix(s, suffix) ==
    /\ Len(s) >= Len(suffix)
    /\ SubSeq(s, Len(s) - Len(suffix) + 1, Len(s)) = suffix

\* TrimSuffix that leaves the suffix in place
TrimSuffixNone(s, suffix) == s

\* strings.TrimSuffix: s without the trailing suffix, once, or s itself
TrimSuffix(s, suffix) ==
    IF HasSuffix(s, suffix) THEN SubSeq(s, 1, Len(s) - Len(suffix)) ELSE s

\* ServiceName with the suffix left in place
ServiceNameUntrimmed(function) == prefix \o function

\* the argument ResolveAll builds for resolveInternal:
\* fmt.Sprintf("%s%s", cr.prefix, strings.TrimSuffix(function, "."+cr.namespace))
ServiceName(function) == prefix \o TrimSuffix(function, <<".">> \o namespace)

\* healthServiceQuery: the query constructors reject a name that is not of
\* the form they parse; "e/cho" stands for such a name
QueryOk(service) == \A i \in 1..Len(service) : service[i] # "e/cho"

\* query.String(), the cache key: the query kind around the service name
QueryString(service) ==
    <<IF connect THEN "health.connect(" ELSE "health.service(">>
        \o service \o <<"|passing)">>

Services == {ServiceName(f) : f \in {g \in FnNames : QueryOk(ServiceName(g))}}
Keys == {QueryString(s) : s \in Services}

\* the expected CertURI of resolveInternal
SpiffeIDService(service) ==
    [isNil |-> FALSE, Namespace |-> namespace, Datacenter |-> "dc1",
     Service |-> service]
NilCertURI ==
    [isNil |-> TRUE, Namespace |-> <<>>, Datacenter |-> "", Service |-> <<>>]

(* ------------------------------ catalog -------------------------------- *)

HealthService(address, port, checks) ==
    [Address |-> address, Port |-> port, Checks |-> checks]

\* the instance lists the catalog goes through; a query's list at version v
\* is SnapTable[(Start + v) mod Len] (the environment's choice of data)
SnapTable ==
    << << HealthService("h3", 8082, <<"critical", "passing", "passing">>),
          HealthService("h2", 8081, <<"passing">>),
          HealthService("h1", 8080, <<"passing", "passing">>) >>,
       << HealthService("h1", 8080, <<>>),
          HealthService("h2", 8081, <<"passing">>),
          HealthService("h3", 8082, <<"critical", "critical">>) >>,
       << HealthService("h2", 8081, <<"passing">>) >>,
       << HealthService("h2", 8081, <<"passing", "warning">>),
          HealthService("h1", 8080, <<"passing", "passing">>) >> >>

Start(key) == IF key = QueryString(ServiceName(<<"echo">>)) THEN 1 ELSE 3

Snapshot(key, ver) == SnapTable[((Start(key) + ver) % Len(SnapTable)) + 1]

(* --------------------------- updateCatalog ----------------------------- *)

\* fmt.Sprintf("%v:%v", s.Address, s.Port)
HostPort(s) == <<s.Address, ":", s.Port>>

\* Eligible with the threshold one lower
EligibleOneCheck(s) == Len(s.Checks) > 0

\* the health-check threshold of updateCatalog: len(s.Checks) > 1
Eligible(s) == Len(s.Checks) > 1

\* the loop of updateCatalog over services[i..], appending to addresses
RECURSIVE AppendEligible(_, _, _)
AppendEligible(services, i, addresses) ==
    IF i > Len(services) THEN addresses
    ELSE AppendEligible(services, i + 1,
            IF Eligible(services[i])
            THEN Append(addresses, HostPort(services[i]))
            ELSE addresses)

Addresses(services) == AppendEligible(services, 1, <<>>)

\* the serviceItem updateCatalog builds; ver is ghost: the catalog version
\* of the snapshot the addresses were taken from
serviceItem(services, ver) ==
    [present |-> TRUE, addresses |-> Addresses(services), ver |-> ver]

\* what cache.Load finds for a key never stored
NoItem == [present |-> FALSE, addresses |-> <<>>, ver |-> 0]

(* ----------------------------- variables ------------------------------- *)

VARIABLES
    catalog,   \* key -> version of the catalog's instance list
    changes,   \* number of catalog changes so far
    cache,     \* cr.cache: key -> serviceItem or NoItem
    watcher,   \* cr.watcher: index of the watcher the handle refers to
    views,     \* watcher index -> key -> the watcher's view of that key
    ch,        \* watcher index -> content of its DataCh()
    watchPc,   \* watch(): "loop" or "panic"
    watchCh,   \* watch(): index of the watcher whose channel it ranges over
               \* (cr.watcher.DataCh() is evaluated once, as the goroutine
               \* that NewConsulResolver starts begins to run)
    resetPc,   \* reset(): "wait", "stopped", "cleared" or "fatal"
    call       \* caller -> its Resolve/ResolveAll call

vars == <<catalog, changes, cache, watcher, views, ch, watchPc, watchCh,
          resetPc, call>>

Watchers == 0..MaxResets

\* a watcher's view of a dependency: absent, or polling; due: it has data
\* it has not put on the data channel yet (its first result, or a change)
NoView == [active |-> FALSE, due |-> FALSE]
NewView == [active |-> TRUE, due |-> TRUE]

\* what a call returned. A call is a Resolve: addresses, identity and allErr
\* are what its ResolveAll returned (a ResolveAll call is this part alone),
\* address, certURI and err what Resolve returned after it. rand is ghost:
\* rand.Intn was called; panic: the call ended in a run-time panic.
NoOut ==
    [addresses |-> <<>>, nilAddresses |-> TRUE, identity |-> NilCertURI,
     allErr |-> "", address |-> <<>>, certURI |-> NilCertURI, err |-> "",
     rand |-> FALSE, panic |-> FALSE]

\* a call: where it stands, its argument, the local variables fetch and item
\* of resolveInternal, and what it returned; nfetch (the number of
\* query.Fetch calls it made), hit and cgen (which sync.Map its
\* updateCatalog stored in, see CacheGen) are ghost
Idle ==
    [pc |-> "idle", function |-> <<>>, fetched |-> 0, nfetch |-> 0,
     hit |-> FALSE, item |-> NoItem, cgen |-> 0, out |-> NoOut]

Service(c) == ServiceName(call[c].function)
Key(c) == QueryString(Service(c))

InFlight(c) == call[c].pc \in {"fetch", "store", "add"}

\* the sync.Map that cr.cache is now, counted from the one of construction:
\* reset() assigns a new one a statement before it assigns the new watcher
CacheGen == watcher + (IF resetPc = "cleared" THEN 1 ELSE 0)

Init ==
    /\ catalog = [k \in Keys |-> 0]
    /\ changes = 0
    /\ cache = [k \in Keys |-> NoItem]
    /\ watcher = 0
    /\ views = [w \in Watchers |-> [k \in Keys |-> NoView]]
    /\ ch = [w \in Watchers |-> <<>>]
    /\ watchPc = "loop"
    /\ watchCh = watcher
    /\ resetPc = "wait"
    /\ call = [c \in Callers |-> Idle]


(* ------------------------------ balance -------------------------------- *)

\* candidates[idx] of balance; an index outside the slice is a run-time panic
Index(candidates, idx, certURI, random) ==
    IF idx + 1 \in DOMAIN candidates
    THEN [address |-> candidates[idx + 1], certURI |-> certURI, err |-> "",
          rand |-> random, panic |-> FALSE]
    ELSE [address |-> <<>>, certURI |-> NilCertURI, err |-> "",
          rand |-> random, panic |-> TRUE]

\* balance without its check for no candidates
balanceUnchecked(candidates, nilCandidates, certURI) ==
    IF Len(candidates) > 1
    THEN {Index(candidates, idx, certURI, TRUE) :
              idx \in 0..(Len(candidates) - 1)}
    ELSE {Index(candidates, 0, certURI, FALSE)}

\* balance that always takes the first candidate
balanceFirst(candidates, nilCandidates, certURI) ==
    IF nilCandidates \/ Len(candidates) = 0
    THEN {[address |-> <<>>, certURI |-> NilCertURI,
           err |-> "no candidate available", rand |-> FALSE, panic |-> FALSE]}
    ELSE {Index(candidates, 0, certURI, FALSE)}

\* balance: the set of results it can return for these candidates
\* (rand.Intn(n) is any of 0..n-1); rand is ghost: rand.Intn was called
balance(candidates, nilCandidates, certURI) ==
    IF nilCandidates \/ Len(candidates) = 0
    THEN {[address |-> <<>>, certURI |-> NilCertURI,
           err |-> "no candidate available", rand |-> FALSE, panic |-> FALSE]}
    ELSE IF Len(candidates) > 1
         THEN {Index(candidates, idx, certURI, TRUE) :
                   idx \in 0..(Len(candidates) - 1)}
         ELSE {Index(candidates, 0, certURI, FALSE)}

\* Resolve, given what its ResolveAll returned: the error, or balance
Results(addresses, nilAddresses, certURI, err) ==
    IF err # ""
    THEN {[addresses |-> addresses, nilAddresses |-> nilAddresses,
           identity |-> certURI, allErr |-> err,
           address |-> <<>>, certURI |-> NilCertURI, err |-> err,
           rand |-> FALSE, panic |-> FALSE]}
    ELSE {[addresses |-> addresses, nilAddresses |-> nilAddresses,
           identity |-> certURI, allErr |-> err,
           address |-> b.address, certURI |-> b.certURI, err |-> b.err,
           rand |-> b.rand, panic |-> b.panic] :
              b \in balance(addresses, nilAddresses, certURI)}

(* ------------------------------ callers -------------------------------- *)

\* Resolve -> ResolveAll -> resolveInternal up to its cache.Load: an invalid
\* query returns the error, a hit returns the cached addresses, a miss goes
\* on to the one-shot fetch
Call(c, function) ==
    /\ call[c].pc = "idle"
    /\ LET service == ServiceName(function)
           key == QueryString(service)
           begun == [Idle EXCEPT !.function = function]
       IN  IF ~QueryOk(service)
           THEN \E out \in Results(<<>>, TRUE, NilCertURI, "query") :
                  call' = [call EXCEPT
                              ![c] = [begun EXCEPT !.pc = "done", !.out = out]]
           ELSE IF cache[key].present
           THEN \E out \in Results(cache[key].addresses, FALSE,
                                   SpiffeIDService(service), "") :
                  call' = [call EXCEPT
                              ![c] = [begun EXCEPT !.pc = "done", !.hit = TRUE,
                                                   !.out = out]]
           ELSE call' = [call EXCEPT ![c] = [begun EXCEPT !.pc = "fetch"]]
    /\ UNCHANGED <<catalog, changes, cache, watcher, views, ch, watchPc,
                   watchCh, resetPc>>

\* query.Fetch succeeds: the catalog's current instance list
FetchOk(c) ==
    /\ call[c].pc = "fetch"
    /\ call' = [call EXCEPT ![c].pc = "store",
                            ![c].fetched = catalog[Key(c)],
                            ![c].nfetch = @ + 1]
    /\ UNCHANGED <<catalog, changes, cache, watcher, views, ch, watchPc,
                   watchCh, resetPc>>

\* FetchFail that caches an empty item for the query it could not fetch
FetchFailCached(c) ==
    /\ call[c].pc = "fetch"
    /\ \E out \in Results(<<>>, TRUE, NilCertURI, "upstream") :
          call' = [call EXCEPT ![c].pc = "done",
                               ![c].nfetch = @ + 1,
                               ![c].out = out]
    /\ cache' = [cache EXCEPT ![Key(c)] = serviceItem(<<>>, catalog[Key(c)])]
    /\ UNCHANGED <<catalog, changes, watcher, views, ch, watchPc, watchCh,
                   resetPc>>

\* query.Fetch fails: resolveInternal returns nil, nil, err
FetchFail(c) ==
    /\ call[c].pc = "fetch"
    /\ \E out \in Results(<<>>, TRUE, NilCertURI, "upstream") :
          call' = [call EXCEPT ![c].pc = "done",
                               ![c].nfetch = @ + 1,
                               ![c].out = out]
    /\ UNCHANGED <<catalog, changes, cache, watcher, views, ch, watchPc,
                   watchCh, resetPc>>

\* Store that caches a list only when it has an address
StoreNonEmpty(c) ==
    /\ call[c].pc = "store"
    /\ LET item == serviceItem(Snapshot(Key(c), call[c].fetched),
                               call[c].fetched)
       IN  /\ cache' = IF item.addresses = <<>> THEN cache
                       ELSE [cache EXCEPT ![Key(c)] = item]
           /\ call' = [call EXCEPT ![c].pc = "add", ![c].fetched = 0,
                                   ![c].item = item, ![c].cgen = CacheGen]
    /\ UNCHANGED <<catalog, changes, watcher, views, ch, watchPc, watchCh,
                   resetPc>>

\* Store that appends what it fetched to the list of the entry it finds
StoreMerged(c) ==
    /\ call[c].pc = "store"
    /\ LET item == serviceItem(Snapshot(Key(c), call[c].fetched),
                               call[c].fetched)
           merged == [item EXCEPT
                         !.addresses = cache[Key(c)].addresses \o @]
       IN  /\ cache' = [cache EXCEPT ![Key(c)] = merged]
           /\ call' = [call EXCEPT ![c].pc = "add", ![c].fetched = 0,
                                   ![c].item = merged, ![c].cgen = CacheGen]
    /\ UNCHANGED <<catalog, changes, watcher, views, ch, watchPc, watchCh,
                   resetPc>>

\* item := cr.updateCatalog(query, services)
Store(c) ==
    /\ call[c].pc = "store"
    /\ LET item == serviceItem(Snapshot(Key(c), call[c].fetched),
                               call[c].fetched)
       IN  /\ cache' = [cache EXCEPT ![Key(c)] = item]
           /\ call' = [call EXCEPT ![c].pc = "add", ![c].fetched = 0,
                                   ![c].item = item, ![c].cgen = CacheGen]
    /\ UNCHANGED <<catalog, changes, watcher, views, ch, watchPc, watchCh,
                   resetPc>>

\* WatcherAdd that starts a view for every call, registered or not
WatcherAddAgain(key) == [views EXCEPT ![watcher][key] = NewView]

\* watcher.Add: a view of the dependency starts polling unless the watcher
\* the handle refers to already has one
WatcherAdd(key) ==
    [views EXCEPT ![watcher][key] = IF @.active THEN @ ELSE NewView]

\* cr.watcher.Add(query) and the return of item.addresses, certURI
Add(c) ==
    /\ call[c].pc = "add"
    /\ views' = WatcherAdd(Key(c))
    /\ \E out \in Results(call[c].item.addresses, FALSE,
                          SpiffeIDService(Service(c)), "") :
          call' = [call EXCEPT ![c].pc = "done", ![c].item = NoItem,
                               ![c].cgen = 0, ![c].out = out]
    /\ UNCHANGED <<catalog, changes, cache, watcher, ch, watchPc, watchCh,
                   resetPc>>

\* the caller has taken the result; it may call again
Return(c) ==
    /\ call[c].pc = "done"
    /\ ~call[c].out.panic
    /\ call' = [call EXCEPT ![c] = Idle]
    /\ UNCHANGED <<catalog, changes, cache, watcher, views, ch, watchPc,
                   watchCh, resetPc>>

(* ------------------------- catalog and watcher ------------------------- *)

\* the catalog's instance list of a service changes; the views polling
\* it have the change to deliver
CatalogChange(key) ==
    /\ changes < MaxChanges
    /\ catalog' = [catalog EXCEPT ![key] = @ + 1]
    /\ changes' = changes + 1
    /\ views' = [w \in Watchers |->
                    [views[w] EXCEPT
                        ![key].due = @ \/ views[w][key].active]]
    /\ UNCHANGED <<cache, watcher, ch, watchPc, watchCh, resetPc, call>>

\* a polling view of watcher w puts its dependency's data on the watcher's
\* data channel: the first result after Add, then every change
ViewPush(w, key) ==
    /\ views[w][key].active
    /\ views[w][key].due
    /\ Len(ch[w]) < MaxChan
    /\ ch' = [ch EXCEPT ![w] = Append(@, [key |-> key, ver |-> catalog[key]])]
    /\ views' = [views EXCEPT ![w][key].due = FALSE]
    /\ UNCHANGED <<catalog, changes, cache, watcher, watchPc, watchCh,
                   resetPc, call>>

(* ------------------------------- watch --------------------------------- *)

\* one iteration: cr.updateCatalog(d.Dependency(), d.Data().(...))
WatchRecv ==
    /\ watchPc = "loop"
    /\ ch[watchCh] # <<>>
    /\ LET d == Head(ch[watchCh])
       IN  cache' = [cache EXCEPT ![d.key] =
                        serviceItem(Snapshot(d.key, d.ver), d.ver)]
    /\ ch' = [ch EXCEPT ![watchCh] = Tail(@)]
    /\ UNCHANGED <<catalog, changes, watcher, views, watchPc, watchCh,
                   resetPc, call>>

\* one iteration on a view whose Data() is not a []*dependency.HealthService
\* (absent data, another type): the unchecked type assertion panics, which
\* ends the process and with it the resolver's memory
WatchRecvMalformed ==
    /\ watchPc = "loop"
    /\ ch[watchCh] = <<>>
    /\ \E key \in Keys : views[watchCh][key].active
    /\ watchPc' = "panic"
    /\ cache' = [k \in Keys |-> NoItem]
    /\ views' = [w \in Watchers |-> [k \in Keys |-> NoView]]
    /\ ch' = [w \in Watchers |-> <<>>]
    /\ call' = [c \in Callers |-> Idle]
    /\ UNCHANGED <<catalog, changes, watcher, watchCh, resetPc>>

(* ------------------------------- reset --------------------------------- *)

\* Watcher.Stop: every view stops polling and the watcher forgets them; what
\* is already on the data channel stays there
WatcherStop(w) == [views EXCEPT ![w] = [k \in Keys |-> NoView]]

\* the ticker fires: cr.watcher.Stop()
ResetStop ==
    /\ resetPc = "wait"
    /\ watcher < MaxResets
    /\ views' = WatcherStop(watcher)
    /\ resetPc' = "stopped"
    /\ UNCHANGED <<catalog, changes, cache, watcher, ch, watchPc, watchCh, call>>

\* watch.NewWatcher(...) and cr.cache = sync.Map{}
ResetCache ==
    /\ resetPc = "stopped"
    /\ cache' = [k \in Keys |-> NoItem]
    /\ resetPc' = "cleared"
    /\ UNCHANGED <<catalog, changes, watcher, views, ch, watchPc, watchCh, call>>

\* cr.cache = sync.Map{} while a cache.Store is under way, of a caller's
\* updateCatalog or of the Watch Loop's: the assignment overwrites the
\* map's mutex and tables with no synchronisation (a data race). Beside
\* the clean swap of ResetCache, the writer can find the mutex it holds
\* zeroed, and its Unlock is the fatal error "sync: unlock of unlocked
\* mutex", which ends the process and with it the resolver's memory
ResetCacheRace ==
    /\ resetPc = "stopped"
    /\ \/ \E c \in Callers : call[c].pc = "store"
       \/ watchPc = "loop" /\ ch[watchCh] # <<>>
    /\ resetPc' = "fatal"
    /\ cache' = [k \in Keys |-> NoItem]
    /\ views' = [w \in Watchers |-> [k \in Keys |-> NoView]]
    /\ ch' = [w \in Watchers |-> <<>>]
    /\ call' = [c \in Callers |-> Idle]
    /\ UNCHANGED <<catalog, changes, watcher, watchPc, watchCh>>

\* cr.watcher = watcher
ResetWatcher ==
    /\ resetPc = "cleared"
    /\ watcher' = watcher + 1
    /\ resetPc' = "wait"
    /\ UNCHANGED <<catalog, changes, cache, views, ch, watchPc, watchCh, call>>

(* ---------------------------- specification ---------------------------- *)

\* a panic or a fatal error in any goroutine ends the process
Alive ==
    /\ watchPc # "panic"
    /\ resetPc # "fatal"
    /\ \A c \in Callers : ~call[c].out.panic

\* a result is taken by its caller as it is returned, before anything else
\* happens: handing the result over is no step of the resolver
Returning == \E c \in Callers : call[c].pc = "done"

Running == Alive /\ ~Returning

\* Bound of the schedules explored: calls overlap one another, and calls
\* overlap a Reset, but the two are not combined. The calls of one caller,
\* Solo, begin at any time; the other callers begin their calls before the
\* first tick of the reset ticker, and the ticker fires while they are idle.
Solo == "c1"

MayCall(c) == c = Solo \/ (watcher = 0 /\ resetPc = "wait")

MayTick == \A c \in Callers \ {Solo} : call[c].pc = "idle"

Next ==
    \/ \E c \in Callers : Alive /\ Return(c)
    \/ \E c \in Callers, function \in FnNames :
          Running /\ MayCall(c) /\ Call(c, function)
    \/ \E c \in Callers : Running /\ FetchOk(c)
    \/ \E c \in Callers : Running /\ FetchFail(c)
    \/ \E c \in Callers : Running /\ Store(c)
    \/ \E c \in Callers : Running /\ Add(c)
    \/ \E key \in Keys : Running /\ CatalogChange(key)
    \/ \E w \in Watchers, key \in Keys : Running /\ ViewPush(w, key)
    \/ Running /\ WatchRecv
    \/ Running /\ WatchRecvMalformed
    \/ Running /\ MayTick /\ ResetStop
    \/ Running /\ ResetCache
    \/ Running /\ ResetCacheRace
    \/ Running /\ ResetWatcher

Spec == Init /\ [][Next]_vars

\* The same program with one caller, Solo, whose calls no Reset overlaps: a
\* call begins while reset() waits for its ticker, and the ticker fires
\* while no call is between its cache.Load and its return. The Watch Loop,
\* the views and the catalog run as in Spec.
NextSolo ==
    \/ Alive /\ Return(Solo)
    \/ \E function \in FnNames :
          Running /\ resetPc = "wait" /\ Call(Solo, function)
    \/ Running /\ FetchOk(Solo)
    \/ Running /\ FetchFail(Solo)
    \/ Running /\ Store(Solo)
    \/ Running /\ Add(Solo)
    \/ \E key \in Keys : Running /\ CatalogChange(key)
    \/ \E w \in Watchers, key \in Keys : Running /\ ViewPush(w, key)
    \/ Running /\ WatchRecv
    \/ Running /\ WatchRecvMalformed
    \/ Running /\ ~InFlight(Solo) /\ ResetStop
    \/ Running /\ ResetCache
    \/ Running /\ ResetCacheRace
    \/ Running /\ ResetWatcher

SpecSolo == Init /\ [][NextSolo]_vars

(* ------------------------------- claims -------------------------------- *)

Done(c) == call[c].pc = "done"
\* the call's ResolveAll returned without error
Resolved(c) == Done(c) /\ call[c].out.allErr = ""

\* C1 (cache hit): a ResolveAll that missed and succeeded has made exactly
\* one fetch, and as it returns the cache holds an entry under its query key
\* with the address list it returned, so that a second ResolveAll issued
\* right after is a hit (no fetch) returning the same list; a ResolveAll that
\* hit made no fetch. Stated for calls that no Reset and no other call
\* overlaps (SpecSolo).
C1_CacheHit ==
    \A c \in Callers :
        Resolved(c) =>
            IF call[c].hit
            THEN call[c].nfetch = 0
            ELSE /\ call[c].nfetch = 1
                 /\ cache[Key(c)].present
                 /\ cache[Key(c)].addresses = call[c].out.addresses

\* some call is between its cache.Load and its return on key q
Resolving(q) == \E c \in Callers : InFlight(c) /\ Key(c) = q

\* the Watch Loop runs and has no update left to apply
WatchIdle == watchPc = "loop" /\ ch[watchCh] = <<>>

\* the i-th element of the installed watcher's channel is its latest push
\* for q, and it carries the catalog's current list
LatestPush(q, i) ==
    /\ i \in 1..Len(ch[watcher])
    /\ ch[watcher][i].key = q
    /\ ch[watcher][i].ver = catalog[q]
    /\ \A j \in (i + 1)..Len(ch[watcher]) : ch[watcher][j].key # q

\* C2 (watch propagation): once the installed subscription mechanism has
\* pushed the current instance list of a resolved query q and the Watch Loop
\* has nothing left to apply, a ResolveAll for q returns the filtered pushed
\* list (the cache entry of q holds it), in every subscription generation
\* and with no reset in between.
C2_WatchPropagation ==
    \A q \in Keys :
        (resetPc = "wait" /\ WatchIdle /\ cache[q].present /\ ~Resolving(q)) =>
            \A i \in 1..Len(ch[watcher]) :
                LatestPush(q, i) =>
                    cache[q].addresses =
                        Addresses(Snapshot(q, ch[watcher][i].ver))

\* the step is an iteration of the Watch Loop applying an update
WatchApplies ==
    /\ watchPc = "loop"
    /\ watchPc' = "loop"
    /\ resetPc' = resetPc
    /\ Len(ch'[watchCh]) < Len(ch[watchCh])

\* C3 (reset clears state): once a Reset has completed, the cache is written
\* by one-shot fetches and by updates of the installed subscription
\* mechanism only: the Watch Loop applies no update that a previous
\* subscription generation delivered, so that no query is served from an
\* entry written without a post-reset fetch.
C3_ResetClears ==
    [][(resetPc = "wait" /\ WatchApplies) => watchCh = watcher]_vars

\* C9 (loop robustness): no push ends the Watch Loop.
C9_LoopRobust == watchPc = "loop"

\* the cache entry of q holds the filtered current catalog list
Fresh(q) == cache[q].addresses = Addresses(Snapshot(q, catalog[q]))

\* an update for q is on its way to the Watch Loop: on the channel it
\* drains, or due in a view that pushes to that channel
Delivering(q) ==
    /\ watchPc = "loop"
    /\ \/ \E i \in 1..Len(ch[watchCh]) : ch[watchCh][i].key = q
       \/ views[watchCh][q].active /\ views[watchCh][q].due

\* C10 (convergence): a cache entry is stale only in the window between a
\* catalog change and the Watch Loop's delivery of it: whenever the entry of
\* q differs from the filtered current catalog list, and no call for q and
\* no Reset is under way, an update for q is on its way to the Watch Loop
\* (so that, the catalog unchanged, the entry comes to equal it).
C10_Convergence ==
    \A q \in Keys :
        (cache[q].present /\ ~Fresh(q) /\ ~Resolving(q) /\ resetPc = "wait") =>
            Delivering(q)

\* the step is the failure of c's one-shot fetch
FetchFails(c) == call[c].pc = "fetch" /\ call'[c].pc = "done"

\* C4 (upstream failure): a one-shot fetch that fails ends the call after
\* that one fetch attempt with the upstream error, from ResolveAll (no
\* address list, no identity) and from Resolve (no address, the Selector not
\* run); the step leaves the cache and the watchers' views as they were, so
\* that an absent entry stays absent and a later call misses and fetches
\* again.
C4_UpstreamFailure ==
    [][\A c \in Callers :
          FetchFails(c) =>
              /\ call'[c].nfetch = 1
              /\ call'[c].out.allErr = "upstream"
              /\ call'[c].out.nilAddresses
              /\ call'[c].out.identity = NilCertURI
              /\ call'[c].out.err = "upstream"
              /\ call'[c].out.address = <<>>
              /\ call'[c].out.certURI = NilCertURI
              /\ ~call'[c].out.rand
              /\ cache' = cache
              /\ views' = views
              /\ ch' = ch]_vars

\* a call has returned the upstream error after one fetch, its query has no
\* cache entry and no view
C4_Witness ==
    \E c \in Callers :
        /\ Done(c)
        /\ call[c].out.err = "upstream"
        /\ call[c].nfetch = 1
        /\ ~cache[Key(c)].present
        /\ ~views[watcher][Key(c)].active

\* C5 (no candidate): when ResolveAll succeeded with an empty or absent
\* address list, Resolve returns the no-candidate error, which is not the
\* upstream error, with no address, and does not panic.
C5_NoCandidate ==
    \A c \in Callers :
        (Resolved(c)
            /\ (call[c].out.nilAddresses \/ Len(call[c].out.addresses) = 0)) =>
            /\ call[c].out.err = "no candidate available"
            /\ call[c].out.err # "upstream"
            /\ call[c].out.address = <<>>
            /\ ~call[c].out.panic

\* a Resolve whose ResolveAll hit a cached empty list, and one whose
\* one-shot fetch found no eligible instance, returned the error
C5_Witness ==
    \E c \in Callers, d \in Callers :
        /\ Resolved(c) /\ call[c].hit
        /\ call[c].out.addresses = <<>>
        /\ call[c].out.err = "no candidate available"
        /\ call[d].pc = "add"
        /\ call[d].item.addresses = <<>>

\* the addresses of a list
Members(candidates) == {candidates[i] : i \in 1..Len(candidates)}

\* caller c can now return address from Resolve
CanReturn(c, address) ==
    ENABLED (/\ \/ Add(c)
                \/ \E function \in FnNames : Call(c, function)
             /\ call'[c].out.err = ""
             /\ call'[c].out.address = address)

\* C6 (selector range): a Resolve over a non-empty resolved list returns a
\* member of the list and no error; a list of one element gives that
\* element with no random choice; and every member of the list is a
\* possible result, of a miss (before its return) and of a hit.
C6_SelectorRange ==
    /\ \A c \in Callers :
          (Resolved(c) /\ Len(call[c].out.addresses) > 0) =>
              /\ call[c].out.err = ""
              /\ ~call[c].out.panic
              /\ call[c].out.address \in Members(call[c].out.addresses)
              /\ Len(call[c].out.addresses) = 1 =>
                    /\ call[c].out.address = call[c].out.addresses[1]
                    /\ ~call[c].out.rand
    /\ \A c \in Callers :
          call[c].pc = "add" =>
              \A a \in Members(call[c].item.addresses) : CanReturn(c, a)
    /\ \A c \in Callers, q \in Keys :
          (call[c].pc = "idle" /\ cache[q].present) =>
              \A a \in Members(cache[q].addresses) : CanReturn(c, a)

\* a Resolve over a list of two has returned the second member after a
\* random choice, and one over a list of one its element without
C6_Witness ==
    \E c \in Callers :
        /\ Resolved(c)
        /\ Len(call[c].out.addresses) = 2
        /\ call[c].out.address = call[c].out.addresses[2]
        /\ call[c].out.rand
        /\ \E q \in Keys : cache[q].present /\ Len(cache[q].addresses) = 1

\* the "<address>:<port>" strings of the instances with more than one health
\* check entry, in the order of the list
EligibleAddresses(services) ==
    LET at == {i \in 1..Len(services) : Len(services[i].Checks) >= 2}
        nth(k) == CHOOSE i \in at : Cardinality({j \in at : j <= i}) = k
    IN  [k \in 1..Cardinality(at) |->
            <<services[nth(k)].Address, ":", services[nth(k)].Port>>]

\* C7 (eligibility filter): every stored address list, whether a one-shot
\* fetch or the Watch Loop stored it, and every list a call is about to
\* return, holds "<address>:<port>" for exactly the instances of its catalog
\* snapshot that report more than one health check entry, in the catalog's
\* order.
C7_EligibilityFilter ==
    /\ \A q \in Keys :
          cache[q].present =>
              cache[q].addresses = EligibleAddresses(Snapshot(q, cache[q].ver))
    /\ \A c \in Callers :
          call[c].pc = "add" =>
              call[c].item.addresses =
                  EligibleAddresses(Snapshot(Key(c), call[c].item.ver))

\* the cache holds the list of a snapshot with instances of 0, 1 and 2
\* check entries (only the last is in it) and the list of a snapshot with
\* two eligible instances, in the catalog's order
C7_Witness ==
    \E q \in Keys, r \in Keys :
        /\ cache[q].present
        /\ Snapshot(q, cache[q].ver) = SnapTable[2]
        /\ cache[q].addresses = <<<<"h3", ":", 8082>>>>
        /\ cache[r].present
        /\ Snapshot(r, cache[r].ver) = SnapTable[4]
        /\ cache[r].addresses = <<<<"h2", ":", 8081>>, <<"h1", ":", 8080>>>>

\* the identity of a function name: the configured namespace, "dc1", and
\* the prefix followed by the name without one trailing "." + namespace
ExpectedIdentity(function) ==
    LET suffix == <<".", "openfaas-fn">>
        stems == {n \in 0..Len(function) :
                     SubSeq(function, 1, n) \o suffix = function}
        stem == IF stems = {} THEN function
                ELSE SubSeq(function, 1, CHOOSE n \in stems : TRUE)
    IN  [isNil |-> FALSE, Namespace |-> <<"openfaas-fn">>,
         Datacenter |-> "dc1", Service |-> <<"svc-">> \o stem]

\* the query key of "echo.openfaas-fn.openfaas-fn", one suffix trimmed
KeyOfDouble ==
    <<"health.service(", "svc-", "echo", ".", "openfaas-fn", "|passing)">>

\* C8 (identity independence): every successful ResolveAll returns the
\* identity of its function name, whatever the cache, the catalog, the
\* watchers and the resets have been: hit or miss, before or after a Reset
\* or a watch update; "echo.openfaas-fn" gives service "svc-echo".
C8_Identity ==
    \A c \in Callers :
        Resolved(c) =>
            /\ call[c].out.identity = ExpectedIdentity(call[c].function)
            /\ call[c].function = <<"echo", ".", "openfaas-fn">> =>
                  call[c].out.identity =
                      [isNil |-> FALSE, Namespace |-> <<"openfaas-fn">>,
                       Datacenter |-> "dc1", Service |-> <<"svc-", "echo">>]

\* after a Reset and a catalog change, with the list of
\* "echo.openfaas-fn.openfaas-fn" cached under its own key, a hit for
\* "echo.openfaas-fn" has returned the identity of "svc-echo"
C8_Witness ==
    \E c \in Callers :
        /\ watcher > 0
        /\ changes > 0
        /\ Resolved(c) /\ call[c].hit
        /\ call[c].function = <<"echo", ".", "openfaas-fn">>
        /\ call[c].out.identity.Service = <<"svc-", "echo">>
        /\ cache[KeyOfDouble].present

\* C11 (Watch Loop restart): whenever no Reset is part-way through, the
\* Watch Loop drains the data channel of the subscription mechanism the
\* resolver's handle refers to: each Reset ends the loop on the old channel
\* and starts one on the new.
C11_WatchRestart == (Alive /\ resetPc = "wait") => watchCh = watcher

\* the step stores in the cache entry of q a list that replaces one
WritesOver(q) ==
    /\ cache[q].present
    /\ cache'[q].present
    /\ cache'[q] # cache[q]

\* C12 (monotone freshness): every write to the cache entry of a query
\* stores a list of a catalog snapshot at least as recent as the snapshot of
\* the list it replaces, whether a ResolveAll or the Watch Loop writes.
C12_MonotoneFreshness ==
    [][\A q \in Keys : WritesOver(q) => cache'[q].ver >= cache[q].ver]_vars

\* the step is caller c's cr.watcher.Add(query)
Registers(c) == call[c].pc = "add" /\ call'[c].pc = "done"

\* C13 (atomic Reset): every ResolveAll that misses stores its entry in the
\* cache and registers its query on the subscription mechanism of one and
\* the same generation: never the new cache with the old, stopped mechanism,
\* never the old cache with the new mechanism.
C13_AtomicReset ==
    [][\A c \in Callers : Registers(c) => call[c].cgen = watcher]_vars

\* the step is caller c's cache.Store of the list it fetched for q
Stores(c, q) == call[c].pc = "store" /\ call'[c].pc = "add" /\ Key(c) = q

\* a ResolveAll of q raced a Reset that has completed, and its entry was
\* discarded with the old cache: a view of q polls on a watcher that Stop
\* left without views (only an Add that came after the Stop starts one), and
\* the cache has no entry of q
Discarded(q) ==
    /\ resetPc = "wait"
    /\ ~cache[q].present
    /\ \E w \in Watchers : w < watcher /\ views[w][q].active

\* C14 (fetch racing a Reset): a Reset that runs while a ResolveAll is
\* between its fetch and its return does not end the process; the call
\* returns the list it fetched; and when its entry was discarded with the
\* old cache, the entry stays absent until a ResolveAll that missed and
\* fetched again stores it.
C14_FetchRacesReset ==
    [][/\ resetPc' # "fatal"
       /\ \A c \in Callers :
             Registers(c) =>
                 /\ call'[c].out.allErr = ""
                 /\ call'[c].out.addresses = call[c].item.addresses
       /\ \A q \in Keys :
             (Discarded(q) /\ cache'[q].present) =>
                 \E c \in Callers : Stores(c, q)]_vars

SnapshotImage(q, addresses) ==
    \E ver \in 0..MaxChanges :
        addresses = EligibleAddresses(Snapshot(q, ver))

\* C16 (whole-entry replacement): every list a step leaves in the cache
\* under a query key (the cache is empty at first), and every list a step
\* returns from ResolveAll for it, is the filtered image of one single
\* snapshot of that query; a cache.Store of a call leaves in the entry the
\* image of the snapshot that call fetched, and an update the Watch Loop
\* applies leaves the image of the pushed snapshot, whatever the entry held
\* (the last writer wins, nothing is merged).
C16_WholeEntry ==
    [][/\ \A q \in Keys :
             (cache'[q] # cache[q] /\ cache'[q].present) =>
                 SnapshotImage(q, cache'[q].addresses)
       /\ \A c \in Callers :
             (call[c].pc # "done" /\ call'[c].pc = "done"
                 /\ call'[c].out.allErr = "") =>
                 SnapshotImage(QueryString(ServiceName(call'[c].function)),
                               call'[c].out.addresses)
       /\ \A c \in Callers, q \in Keys :
             Stores(c, q) =>
                 cache'[q].addresses =
                     EligibleAddresses(Snapshot(q, call[c].fetched))
       /\ WatchApplies =>
             LET d == Head(ch[watchCh])
             IN  cache'[d.key].addresses =
                     EligibleAddresses(Snapshot(d.key, d.ver))]_vars

\* two writers have stored for one key: the entry holds the list of one
\* snapshot, written over the different, non-empty list of another, which
\* a call that fetched it is still to return
C16_Witness ==
    \E c \in Callers :
        /\ call[c].pc = "add"
        /\ cache[Key(c)].present
        /\ call[c].item.addresses # <<>>
        /\ cache[Key(c)].addresses # <<>>
        /\ cache[Key(c)].addresses # call[c].item.addresses

\* the cache holds an entry with no address under q
CachedEmpty(q) == cache[q].present /\ cache[q].addresses = <<>>

\* the step begins a call of c
Begins(c) == call[c].pc = "idle" /\ call'[c].pc # "idle"

\* the step ends the process (and with it the cache): the panic of the
\* Watch Loop, the fatal error of a cache.Store that a Reset raced
Dies == watchPc' = "panic" \/ resetPc' = "fatal"

Quiescent ==
    /\ Alive
    /\ resetPc = "wait"
    /\ \A c \in Callers : call[c].pc = "idle"

\* C18 (cached implies subscribed): whenever no ResolveAll and no Reset is
\* part-way through, every query key that has a cache entry has a view on
\* the subscription mechanism the resolver's handle refers to.
C18_CachedSubscribed ==
    Quiescent =>
        \A q \in Keys : cache[q].present => views[watcher][q].active

\* the name ends in "." + namespace
EndsInNamespace(f) ==
    /\ Len(f) >= 2
    /\ f[Len(f) - 1] = "."
    /\ f[Len(f)] = "openfaas-fn"

\* the other name of the pair f, f + "." + namespace
Alias(f) ==
    IF EndsInNamespace(f)
    THEN SubSeq(f, 1, Len(f) - 2)
    ELSE f \o <<".", "openfaas-fn">>

\* the shorter name of the pair does not itself end in "." + namespace
Aliased(f) ==
    ~EndsInNamespace(IF EndsInNamespace(f) THEN Alias(f) ELSE f)

\* the query key resolveInternal uses for a function name
KeyOf(f) == QueryString(ServiceName(f))

\* C19 (name aliasing): for a name f that does not end in "." + namespace,
\* f and f + "." + namespace have one query key; a call for either name
\* that begins while the key of the other has an entry is a hit: it makes
\* no fetch, registers nothing, and returns the entry's list and the
\* identity of the pair.
C19_NameAliasing ==
    [][\A c \in Callers :
          (Begins(c) /\ Aliased(call'[c].function)
              /\ QueryOk(ServiceName(call'[c].function))) =>
              LET f == call'[c].function
                  g == Alias(f)
              IN  /\ KeyOf(f) = KeyOf(g)
                  /\ KeyOf(g) \in Keys
                  /\ cache[KeyOf(g)].present =>
                        /\ call'[c].pc = "done"
                        /\ call'[c].hit
                        /\ call'[c].nfetch = 0
                        /\ call'[c].out.allErr = ""
                        /\ call'[c].out.addresses = cache[KeyOf(g)].addresses
                        /\ call'[c].out.identity = ExpectedIdentity(g)
                        /\ call'[c].out.identity = ExpectedIdentity(f)
                        /\ cache' = cache
                        /\ views' = views]_vars

\* a call for "echo" has fetched and stored a list with an address and is
\* about to register; a call for "echo.openfaas-fn" has hit that entry and
\* returned the list and the identity of "svc-echo" without a fetch
C19_Witness ==
    \E c \in Callers, d \in Callers :
        /\ call[d].pc = "add"
        /\ call[d].function = <<"echo">>
        /\ Resolved(c)
        /\ call[c].function = <<"echo", ".", "openfaas-fn">>
        /\ call[c].hit
        /\ call[c].nfetch = 0
        /\ call[c].out.addresses = call[d].item.addresses
        /\ Len(call[c].out.addresses) > 0
        /\ call[c].out.identity.Service = <<"svc-", "echo">>

=============================================================================
